---- MODULE Spec2Model ----
(***************************************************************************)
(* Word-level model of the explicit-free-list allocator of mm.c.           *)
(*                                                                         *)
(* The heap is a sparse map from 4-byte word addresses to 32-bit words; a  *)
(* word that is absent from the map holds 0 (the arena handed out by the   *)
(* heap-grow service is zero-filled, and no routine of mm.c depends on a   *)
(* word being absent rather than 0).  Pointers stored in the heap (the     *)
(* BACK/FORWARD links) are 8 bytes wide and therefore occupy two words:    *)
(* the low word holds the address inside the arena's 4 GiB window and the  *)
(* high word holds PtrHi; NULL is the pair <<0, 0>>.  Every load or store  *)
(* through an address outside the arena, or through a pointer whose high   *)
(* word is not PtrHi, ends the run in status "segv"; a free-list walk that *)
(* never reaches an allocated block ends it in status "hang".              *)
(***************************************************************************)
EXTENDS Integers, Sequences, FiniteSets, TLC

\* ---- program constants (mm.c lines 58-63) ------------------------------
WSIZE == 4
DSIZE == 8
CHUNKSIZE == 4096
OVERHEAD == 8
ALIGNMENT == 8
HEAP_SIZE == 24

\* ---- the arena of the heap-grow service --------------------------------
\* first byte of the arena (low word of its address) and the high word
\* shared by every address of the arena
HeapBase == 65536
PtrHi == 32512

\* ---- bounds of the model -----------------------------------------------
\* number of bytes the heap-grow service can hand out before it fails; the
\* initial states also hold an arena of 2 * HEAP_SIZE bytes, which takes the
\* first request of mm_init and not the second, and one of HEAP_SIZE bytes,
\* which takes neither
MaxHeap == 6192
\* number of payload pointers the client holds at once
MaxLive == 3
\* number of public calls the client makes at its own choice in one run
MaxCalls == 3
\* number of leading payload words a client write fills
MaxFill == 6
\* request sizes the client uses with mm_malloc and mm_realloc
MallocSizes == {0, 1, 48, 2040, 4088}
ReallocSizes == {0, 8, 2030, 4048}
\* the 32-bit value the client stores, word after word, into its payloads
FillWord == 56

VARIABLES mem, mem_brk, mem_max, heap_listp, list_root, status, live, lastOp, calls, moved,
          script

vars == <<mem, mem_brk, mem_max, heap_listp, list_root, status, live, lastOp, calls, moved,
         script>>

NULL == <<0, 0>>

\* a pointer value for an address of the arena
Ptr(a) == <<a, PtrHi>>

\* the address a pointer value designates; -1 (never valid) when the
\* pointer does not point into the arena's window (NULL included)
AddrOf(p) == IF p[2] = PtrHi THEN p[1] ELSE -1

\* ---- evaluation order --------------------------------------------------
\* C statements run in sequence on one heap state.  A statement that reads
\* the state left by the one before it is written
\*     One({statement(x) : x \in {state before}})
\* so nested statements read inside-out (last bound, first executed), and
\* every routine binds its arguments once (call by value).
One(S) == CHOOSE x \in S : TRUE

\* ---- raw memory --------------------------------------------------------
Rd(m, a) == IF a \in DOMAIN m THEN m[a] ELSE 0

Wr(m, a, v) ==
  IF v = 0 THEN [x \in DOMAIN m \ {a} |-> m[x]]
  ELSE [x \in DOMAIN m \cup {a} |-> IF x = a THEN v ELSE m[x]]

\* an aligned word inside the arena
Valid(h, a) == a % 4 = 0 /\ a >= HeapBase /\ a + 4 <= h.max

Segv(h) == [h EXCEPT !.st = IF h.st = "ok" THEN "segv" ELSE h.st]

\* reading the words A: a fault if one of them is not addressable
Touch(h, A) ==
  One({IF \A a \in A : Valid(s, a) THEN s ELSE Segv(s) : s \in {h}})

GET(h, a) == Rd(h.mem, a)

PUT(h, a, v) ==
  One({IF s.st # "ok" THEN s
       ELSE IF ~Valid(s, b) THEN Segv(s)
       ELSE [s EXCEPT !.mem = Wr(s.mem, b, v)] : s \in {h}, b \in {a}})

MAX(x, y) == IF x > y THEN x ELSE y

PACK(size, alloc) == One({IF s % 2 = 1 THEN s ELSE s + (alloc % 2) : s \in {size}})

GET_SIZE(h, a) == (GET(h, a) \div 8) * 8

GET_ALLOC(h, a) == GET(h, a) % 2

HDRP(bp) == bp - WSIZE

FTRP(h, bp) == One({b + GET_SIZE(h, HDRP(b)) - DSIZE : b \in {bp}})

NEXT_BLKP(h, bp) == One({b + GET_SIZE(h, b - WSIZE) : b \in {bp}})

PREV_BLKP(h, bp) == One({b - GET_SIZE(h, b - DSIZE) : b \in {bp}})

ALIGN(p) == ((p + (ALIGNMENT - 1)) \div 8) * 8

\* the link fields: BACK at bp, FORWARD (alias PRED) at bp + ALIGNMENT
LoadPtr(h, a) == One({<<GET(h, b), GET(h, b + 4)>> : b \in {a}})

StorePtr(h, a, p) ==
  One({PUT(PUT(s, b, q[1]), b + 4, q[2]) : s \in {h}, b \in {a}, q \in {p}})

PtrWords(a) == One({{b, b + 4} : b \in {a}})

BACK(h, bp) == LoadPtr(h, bp)

FORWARD(h, bp) == LoadPtr(h, bp + ALIGNMENT)

SetBACK(h, bp, p) == StorePtr(h, bp, p)

SetFORWARD(h, bp, p) == StorePtr(h, bp + ALIGNMENT, p)

SetRoot(h, p) ==
  One({IF s.st # "ok" THEN s ELSE [s EXCEPT !.list_root = p] : s \in {h}})

\* PUT(HDRP(bp), PACK(size, bool)); PUT(FTRP(bp), PACK(size, bool));
put_on_heap(h, bp, size, bool) ==
  One({PUT(x, FTRP(x, b), w)
       : x \in {PUT(h, HDRP(bp), PACK(size, bool))}, b \in {bp},
         w \in {PACK(size, bool)}})

\* ---- the heap-grow service (memlib's mem_sbrk) -------------------------
\* hands out the next incr bytes of the arena, or fails with (void *)-1
mem_sbrk(h, incr) ==
  One({IF n < 0 \/ s.brk + n > s.max
       THEN [h |-> s, p |-> -1]
       ELSE [h |-> [s EXCEPT !.brk = s.brk + n], p |-> s.brk] : s \in {h}, n \in {incr}})

\* ---- the free-block registry -------------------------------------------
add_node(h, bp) ==
  One({IF s.list_root = NULL
       THEN \* list is empty: list_root = bp; BACK(bp) = NULL; FORWARD(bp) = NULL
            SetFORWARD(SetBACK(SetRoot(s, Ptr(b)), b, NULL), b, NULL)
       ELSE \* FORWARD(bp) = head; BACK(bp) = NULL; BACK(head) = bp; list_root = bp
            SetRoot(SetBACK(SetBACK(SetFORWARD(s, b, s.list_root), b, NULL),
                            AddrOf(s.list_root), Ptr(b)), Ptr(b))
       : s \in {h}, b \in {bp}})

\* both branches of delete_node end with the same statement
\*   if (temp_forward != NULL) BACK(temp_forward) = BACK(bp);
delete_node(h, bp) ==
  One({IF tf # NULL THEN SetBACK(x, AddrOf(tf), BACK(x, b)) ELSE x
       : x \in {One({IF tb = NULL
                     THEN \* block is at the head of the list
                          SetRoot(s, FORWARD(s, bp))
                     ELSE \* block in the middle
                          SetFORWARD(s, AddrOf(tb), FORWARD(s, bp))
                     : s \in {Touch(h, PtrWords(bp) \cup PtrWords(bp + ALIGNMENT))},
                       tb \in {BACK(h, bp)}})},
         b \in {bp}, tf \in {FORWARD(h, bp)}})

\* ---- boundary-tag coalescing -------------------------------------------
\* Case 1 of coalesce: only the next block is free
coalesce_next(h, bp, size) ==
  put_on_heap(delete_node(h, NEXT_BLKP(h, bp)), bp,
              size + GET_SIZE(h, HDRP(NEXT_BLKP(h, bp))), 0)

\* Case 2 of coalesce: only the previous block is free
coalesce_prev(h, bp, size) ==
  One({delete_node(x, PREV_BLKP(x, bp))
       : x \in {put_on_heap(h, PREV_BLKP(h, bp),
                            size + GET_SIZE(h, HDRP(PREV_BLKP(h, bp))), 0)}})

\* Case 3 of coalesce: both are free
coalesce_both(h, bp, size) ==
  One({put_on_heap(y, PREV_BLKP(y, bp),
                   size + GET_SIZE(h, HDRP(PREV_BLKP(h, bp)))
                        + GET_SIZE(h, HDRP(NEXT_BLKP(h, bp))), 0)
       : y \in {One({delete_node(x, NEXT_BLKP(x, bp))
                     : x \in {delete_node(h, PREV_BLKP(h, bp))}})}})

\* the case analysis of coalesce; yields the heap and the block pointer
coalesce_cases(h, bp, prev_alloc, next_alloc, size) ==
  One({\* if coalesced with the previous block, return its pointer
       [h |-> x, bp |-> IF ~prev_alloc THEN PREV_BLKP(x, bp) ELSE bp]
       : x \in {IF prev_alloc /\ ~next_alloc THEN coalesce_next(h, bp, size)
                ELSE IF ~prev_alloc /\ next_alloc THEN coalesce_prev(h, bp, size)
                ELSE IF ~prev_alloc /\ ~next_alloc THEN coalesce_both(h, bp, size)
                ELSE h}})

coalesce(h, bp) ==
  One({One({[h |-> add_node(r.h, r.bp), bp |-> r.bp]
            : r \in {coalesce_cases(s, b, prev_alloc, next_alloc, size)}})
       \* the reads of the first statements of coalesce
       : s \in {Touch(h, {bp - DSIZE, HDRP(PREV_BLKP(h, bp)), FTRP(h, PREV_BLKP(h, bp)),
                          HDRP(bp), HDRP(NEXT_BLKP(h, bp))})},
         b \in {bp},
         prev_alloc \in {GET_ALLOC(h, FTRP(h, PREV_BLKP(h, bp))) # 0
                         \/ PREV_BLKP(h, bp) = bp},
         next_alloc \in {GET_ALLOC(h, HDRP(NEXT_BLKP(h, bp))) # 0},
         size \in {GET_SIZE(h, HDRP(bp))}})

\* ---- heap growth -------------------------------------------------------
\* a variant of extend_heap that turns the epilogue header into the header
\* of the new block before it asks for the bytes, and so leaves that header
\* behind when the request fails
extend_heap_eager(h, words) ==
  One({IF r.p = -1 THEN [h |-> PUT(r.h, r.h.brk - WSIZE, PACK(size, 0)), bp |-> 0]
       ELSE One({coalesce(x, r.p)
                 : x \in {One({PUT(y, HDRP(NEXT_BLKP(y, r.p)), PACK(0, 1))
                               : y \in {put_on_heap(r.h, r.p, size, 0)}})}})
       : r \in {mem_sbrk(h, IF words % 2 = 1 THEN (words + 1) * WSIZE
                            ELSE words * WSIZE)},
         size \in {IF words % 2 = 1 THEN (words + 1) * WSIZE ELSE words * WSIZE}})

extend_heap(h, words) ==
  One({IF r.p = -1 THEN [h |-> r.h, bp |-> 0]
       ELSE One({coalesce(x, r.p)
                 : x \in {One({PUT(y, HDRP(NEXT_BLKP(y, r.p)), PACK(0, 1))
                               : y \in {put_on_heap(r.h, r.p, size, 0)}})}})
       : r \in {mem_sbrk(h, IF words % 2 = 1 THEN (words + 1) * WSIZE
                            ELSE words * WSIZE)},
         size \in {IF words % 2 = 1 THEN (words + 1) * WSIZE ELSE words * WSIZE}})

\* ---- mm_init -----------------------------------------------------------
\* the statements of mm_init between the two heap-grow requests, on the
\* state r.h and the pointer r.p returned by mem_sbrk
init_sentinels(r) ==
  One({SetRoot(z, Ptr(z.heap_listp))
       : z \in {One({PUT(PUT(y, y.heap_listp + DSIZE, 0), y.heap_listp + DSIZE + WSIZE, 0)
                     : y \in {One({IF x.st = "ok"
                                   THEN [x EXCEPT !.heap_listp = x.heap_listp + DSIZE]
                                   ELSE x
                                   : x \in {PUT(PUT(PUT(PUT([r.h EXCEPT !.heap_listp = r.p],
                                                            r.p, 0),
                                                        r.p + WSIZE, PACK(HEAP_SIZE, 1)),
                                                    r.p + HEAP_SIZE, PACK(HEAP_SIZE, 1)),
                                                r.p + WSIZE + HEAP_SIZE, PACK(0, 1))}})}})}})

mm_init(h) ==
  One({IF r.p = 0 THEN [h |-> [r.h EXCEPT !.heap_listp = 0], ret |-> -1]
       ELSE One({IF e.bp = 0 /\ e.h.st = "ok" THEN [h |-> e.h, ret |-> -1]
                 ELSE [h |-> e.h, ret |-> 0]
                 : e \in {extend_heap(init_sentinels(r), CHUNKSIZE \div DSIZE)}})
       : r \in {mem_sbrk(h, 2 * HEAP_SIZE)}})

\* ---- first-fit search over the registry --------------------------------
\* the for loop of find_fit from the list node bp on; seen holds the nodes
\* already passed, so a walk that comes back to one of them never ends
RECURSIVE fit_walk(_, _, _, _)
fit_walk(h, bp, asize, seen) ==
  One({IF ~Valid(h, HDRP(a)) THEN [st |-> "segv", bp |-> 0]
       ELSE IF GET_ALLOC(h, HDRP(a)) # 0 THEN [st |-> "ok", bp |-> 0]
       ELSE IF GET_SIZE(h, HDRP(a)) >= asize THEN [st |-> "ok", bp |-> a]
       ELSE IF a \in sn THEN [st |-> "hang", bp |-> 0]
       ELSE IF \E w \in PtrWords(a + ALIGNMENT) : ~Valid(h, w)
            THEN [st |-> "segv", bp |-> 0]
       ELSE fit_walk(h, FORWARD(h, a), asize, sn \cup {a})
       : a \in {AddrOf(bp)}, sn \in {seen}})

find_fit(h, asize) == fit_walk(h, h.list_root, asize, {})

\* ---- placement ---------------------------------------------------------
\* the split branch of place after its delete_node: bp = NEXT_BLKP(bp), the
\* tags of the remainder, coalesce(bp)
place_rest(h, bp, rsize) ==
  One({One({coalesce(x, nbp).h
            : x \in {One({PUT(y, FTRP(y, nbp), PACK(rsize, 0))
                          : y \in {PUT(h, HDRP(nbp), PACK(rsize, 0))}})}})
       : nbp \in {NEXT_BLKP(h, bp)}})

\* both branches of place begin with the two PUTs of a tag PACK(size, 1)
\* and delete_node(bp), where size is asize when splitting and csize when not
place(h, bp, asize) ==
  One({IF s.st # "ok" THEN s
       ELSE IF csize - asize >= HEAP_SIZE \/ csize < asize
       THEN place_rest(delete_node(put_on_heap(s, b, asize, 1), b), b, csize - asize)
       ELSE delete_node(put_on_heap(s, b, csize, 1), b)
       : s \in {Touch(h, {HDRP(bp)})}, b \in {bp}, csize \in {GET_SIZE(h, HDRP(bp))}})

\* ---- mm_malloc ---------------------------------------------------------
AdjustedSize(size) ==
  IF ALIGN(size) + DSIZE < HEAP_SIZE THEN HEAP_SIZE ELSE ALIGN(size) + DSIZE

\* the block mm_malloc places in: the fit, or else the block extend_heap returns
malloc_block(h, asize) ==
  One({IF f.st # "ok" THEN [h |-> [s EXCEPT !.st = f.st], bp |-> 0]
       ELSE IF f.bp # 0 THEN [h |-> s, bp |-> f.bp]
       ELSE extend_heap(s, MAX(asize, CHUNKSIZE) \div WSIZE)
       : s \in {h}, f \in {find_fit(h, asize)}})

\* a variant of mm_malloc without the test that ignores a request of 0 bytes
mm_malloc_unchecked(h, size) ==
  One({IF r.bp = 0 THEN r
       ELSE [h |-> place(r.h, r.bp, AdjustedSize(size)), bp |-> r.bp]
       : r \in {malloc_block(h, AdjustedSize(size))}})

mm_malloc(h, size) ==
  IF size <= 0 THEN [h |-> h, bp |-> 0]
  ELSE One({IF r.bp = 0 THEN r
            ELSE [h |-> place(r.h, r.bp, AdjustedSize(size)), bp |-> r.bp]
            : r \in {malloc_block(h, AdjustedSize(size))}})

\* ---- mm_free -----------------------------------------------------------
mm_free(h, bp) ==
  One({IF s.st # "ok" THEN s
       ELSE coalesce(put_on_heap(s, bp, GET_SIZE(s, HDRP(bp)), 0), bp).h
       : s \in {Touch(h, {HDRP(bp)})}})

\* ---- memcpy ------------------------------------------------------------
\* the low r bytes of word v (little-endian), r in 0..4
LowBytes(v, r) ==
  IF r = 0 THEN 0
  ELSE IF r = 1 THEN v % 256
  ELSE IF r = 2 THEN v % 65536
  ELSE IF r = 3 THEN v % 16777216
  ELSE v

\* word v with its low r bytes replaced by those of w
MergeLow(v, w, r) == (v - LowBytes(v, r)) + LowBytes(w, r)

\* memcpy(dst, src, n) on 8-byte-aligned dst and src.  C leaves the result
\* undefined when the two ranges overlap: mode "fwd" is a copy in ascending
\* address order, mode "bwd" one in descending order; they differ only on
\* overlapping ranges.
memcpy(h, dst, src, n, mode) ==
  One({LET full == n \div 4
           r == n % 4
           last == IF r = 0 THEN full - 1 ELSE full
           d == (dp - sp) \div 4
           e == (sp - dp) \div 4
           from(i) == IF mode = "fwd" /\ d > 0 THEN i % d
                      ELSE IF mode = "bwd" /\ e > 0 THEN last - ((last - i) % e)
                      ELSE i
           val(i) == IF i < full THEN GET(s, sp + 4 * from(i))
                     ELSE MergeLow(GET(s, dp + 4 * i), GET(s, sp + 4 * from(i)), r)
           D == {dp + 4 * i : i \in 0..last}
       IN IF s.st # "ok" \/ n = 0 THEN s
          ELSE IF \E a \in {sp, sp + 4 * last, dp, dp + 4 * last} : ~Valid(s, a)
          THEN Segv(s)
          ELSE One({[s EXCEPT !.mem =
                       [a \in (DOMAIN s.mem \ D) \cup keep |->
                          IF a \in keep THEN val((a - dp) \div 4) ELSE s.mem[a]]]
                    : keep \in {{a \in D : val((a - dp) \div 4) # 0}}})
       : s \in {h}, dp \in {dst}, sp \in {src}})

\* ---- mm_realloc --------------------------------------------------------
\* the last branch of mm_realloc: mm_malloc, place, memcpy, mm_free
realloc_move(h, bp, newsize, mode) ==
  One({[h |-> mm_free(memcpy(place(m.h, m.bp, newsize), m.bp, bp, newsize, mode), bp),
        ret |-> m.bp, path |-> "move"]
       : m \in {mm_malloc(h, newsize)}})

\* path names the branch that returned
mm_realloc(h, bp, size, mode) ==
  One({IF b = 0 THEN [h |-> mm_malloc(s, size).h, ret |-> 0, path |-> "null"]
       ELSE IF size = 0 THEN [h |-> mm_free(s, b), ret |-> 0, path |-> "free"]
       ELSE IF ~Valid(s, HDRP(b)) THEN [h |-> Segv(s), ret |-> 0, path |-> "same"]
       ELSE IF size + HEAP_SIZE <= GET_SIZE(s, HDRP(b))
       THEN [h |-> s, ret |-> b, path |-> "same"]
       ELSE IF ~Valid(s, HDRP(NEXT_BLKP(s, b))) THEN [h |-> Segv(s), ret |-> 0, path |-> "grow"]
       ELSE One({IF GET_ALLOC(s, HDRP(NEXT_BLKP(s, b))) = 0 /\ csize >= size + HEAP_SIZE
                 THEN \* the next block is free and the two are large enough
                      [h |-> put_on_heap(delete_node(s, NEXT_BLKP(s, b)), b, csize, 1),
                       ret |-> b, path |-> "grow"]
                 ELSE realloc_move(s, b, size + HEAP_SIZE, mode)
                 : csize \in {GET_SIZE(s, HDRP(b)) + GET_SIZE(s, HDRP(NEXT_BLKP(s, b)))}})
       : s \in {h}, b \in {bp}})

\* ---- the client --------------------------------------------------------
\* the client stores FillWord, word after word, into the first nb bytes at
\* address p (the last word in part when nb is not a multiple of 4)
FillBytes(m, p, nb) ==
  LET full == nb \div 4
      r == nb % 4
      last == IF r = 0 THEN full - 1 ELSE full
      D == {p + 4 * i : i \in 0..last}
      val(a) == IF (a - p) \div 4 < full THEN FillWord
                ELSE MergeLow(Rd(m, a), FillWord, r)
  IN [a \in DOMAIN m \cup D |-> IF a \in D THEN val(a) ELSE m[a]]

Min(x, y) == IF x < y THEN x ELSE y

\* ---- the state machine -------------------------------------------------
\* live maps each payload pointer the client holds to the size it asked
\* for; lastOp records the last call and what it returned; moved records
\* whether some mm_realloc call has run its allocate-copy-free branch.
\* A client starts with the calls left in script, in that order, and then
\* makes up to MaxCalls calls of its choice; calls counts the public calls
\* after mm_init, from minus the number of calls in script, so that it is 0
\* when the client starts to choose.

\* payload address of the first block after the sentinels: the first byte
\* extend_heap obtains in mm_init, right after the 2 * HEAP_SIZE bytes of
\* the first request
FirstBlock == HeapBase + 2 * HEAP_SIZE

\* the opening call sequence: three allocations A, B and C that lie one
\* after the other from the first block on, a client write into C,
\* mm_free(A) and a mm_realloc of B that has to move B
Script ==
  << [op |-> "malloc", p |-> 0, n |-> 48],
     [op |-> "malloc", p |-> 0, n |-> 1],
     [op |-> "malloc", p |-> 0, n |-> 1],
     [op |-> "write", p |-> FirstBlock + 80, n |-> 0],
     [op |-> "free", p |-> FirstBlock, n |-> 0],
     [op |-> "realloc", p |-> FirstBlock + 56, n |-> 2030] >>

\* the number of public calls in a call sequence
NumCalls(s) == Cardinality({i \in DOMAIN s : s[i].op # "write"})

Cur == [mem |-> mem, brk |-> mem_brk, max |-> mem_max, heap_listp |-> heap_listp,
        list_root |-> list_root, st |-> status]

Install(h) ==
  /\ mem' = h.mem
  /\ mem_brk' = h.brk
  /\ mem_max' = h.max
  /\ heap_listp' = h.heap_listp
  /\ list_root' = h.list_root
  /\ status' = h.st

Op(op, p, n, ret, path) == [op |-> op, p |-> p, n |-> n, ret |-> ret, path |-> path]

Init ==
  /\ mem = <<>>
  /\ mem_brk = HeapBase
  /\ mem_max \in {HeapBase + MaxHeap, HeapBase + 2 * HEAP_SIZE, HeapBase + HEAP_SIZE}
  /\ heap_listp = 0
  /\ list_root = NULL
  /\ status = "start"
  /\ live = <<>>
  /\ lastOp = Op("none", 0, 0, 0, "-")
  /\ script \in {SubSeq(Script, 1, k) : k \in 0..Len(Script)}
  /\ calls = -NumCalls(script)
  /\ moved = FALSE

Live == DOMAIN live

Without(f, p) == [x \in DOMAIN f \ {p} |-> f[x]]

With(f, p, n) == [x \in DOMAIN f \cup {p} |-> IF x = p THEN n ELSE f[x]]

MmInit ==
  /\ status = "start"
  /\ \E r \in {mm_init([Cur EXCEPT !.st = "ok"])} :
       /\ Install(IF r.ret = -1 /\ r.h.st = "ok" THEN [r.h EXCEPT !.st = "initfail"] ELSE r.h)
       /\ lastOp' = Op("init", 0, 0, r.ret, "-")
  /\ UNCHANGED <<live, calls, moved, script>>

Malloc(n) ==
  /\ status = "ok"
  /\ calls < MaxCalls
  /\ calls' = calls + 1
  /\ Cardinality(Live) < MaxLive
  /\ \E r \in {mm_malloc(Cur, n)} :
       /\ Install(r.h)
       /\ lastOp' = Op("malloc", 0, n, r.bp, "-")
       /\ live' = IF r.bp # 0 /\ r.h.st = "ok" THEN With(live, r.bp, n) ELSE live
  /\ UNCHANGED moved

Free(p) ==
  /\ status = "ok"
  /\ calls < MaxCalls
  /\ calls' = calls + 1
  /\ p \in Live
  /\ \E h \in {mm_free(Cur, p)} : Install(h)
  /\ lastOp' = Op("free", p, 0, 0, "-")
  /\ live' = Without(live, p)
  /\ UNCHANGED moved

\* mm_realloc on a pointer the client holds, or on NULL (p = 0)
Realloc(p, n, mode) ==
  /\ status = "ok"
  /\ calls < MaxCalls
  /\ calls' = calls + 1
  /\ p \in Live \cup {0}
  /\ \E r \in {mm_realloc(Cur, p, n, mode)} :
       /\ Install(r.h)
       /\ lastOp' = Op("realloc", p, n, r.ret, r.path)
       /\ live' = IF r.h.st # "ok" \/ p = 0 THEN live
                  ELSE IF n = 0 THEN Without(live, p)
                  ELSE With(Without(live, p), r.ret, n)
       /\ moved' = (moved \/ r.path = "move")

\* the client fills a block right after it obtained it
UserWrite(p) ==
  /\ status = "ok"
  /\ p \in Live
  /\ lastOp.op \in {"malloc", "realloc"}
  /\ lastOp.ret = p
  /\ mem' = FillBytes(mem, p, Min(live[p], 4 * MaxFill))
  /\ lastOp' = Op("write", p, 0, 0, "-")
  /\ UNCHANGED <<mem_brk, mem_max, heap_listp, list_root, status, live, calls, moved>>

\* the client makes the next call of its opening sequence
Scripted ==
  /\ script # <<>>
  /\ script' = Tail(script)
  /\ \/ Head(script).op = "malloc" /\ Malloc(Head(script).n)
     \/ Head(script).op = "free" /\ Free(Head(script).p)
     \/ Head(script).op = "realloc" /\ Realloc(Head(script).p, Head(script).n, "fwd")
     \/ Head(script).op = "write" /\ UserWrite(Head(script).p)

\* the client makes a call of its choice
Chosen ==
  /\ script = <<>>
  /\ script' = script
  /\ \/ \E n \in MallocSizes : Malloc(n)
     \/ \E p \in Live : Free(p)
     \/ \E p \in Live \cup {0}, n \in ReallocSizes, mode \in {"fwd", "bwd"} :
          Realloc(p, n, mode)
     \/ \E p \in Live : UserWrite(p)

Next ==
  \/ MmInit
  \/ Scripted
  \/ Chosen

Spec == Init /\ [][Next]_vars

\* ---- views of a heap state ---------------------------------------------
Range(s) == {s[i] : i \in DOMAIN s}

\* the blocks of the heap in address order: from the first block, from
\* header to header, up to the end of the heap or a header of size 0
RECURSIVE HeapWalk(_, _)
HeapWalk(h, bp) ==
  IF bp >= h.brk \/ GET_SIZE(h, HDRP(bp)) = 0 THEN <<>>
  ELSE <<bp>> \o HeapWalk(h, NEXT_BLKP(h, bp))

BlockSeq(h) == HeapWalk(h, FirstBlock)

Blocks(h) == Range(BlockSeq(h))

IsFree(h, bp) == GET_ALLOC(h, HDRP(bp)) = 0

FreeBlocks(h) == {b \in Blocks(h) : IsFree(h, b)}

\* address, size and allocated bit of every block
BlockSet(h) == {<<b, GET_SIZE(h, HDRP(b)), GET_ALLOC(h, HDRP(b))>> : b \in Blocks(h)}

RECURSIVE SumSizes(_, _)
SumSizes(h, s) ==
  IF s = <<>> THEN 0 ELSE GET_SIZE(h, HDRP(Head(s))) + SumSizes(h, Tail(s))

\* the registry in list order: from list_root along the FORWARD links up to
\* the prologue block, which mm_init makes the last node of the list, or up
\* to a null or wild link, or up to a node met before
RECURSIVE ListWalk(_, _, _)
ListWalk(h, p, seen) ==
  IF AddrOf(p) = -1 \/ AddrOf(p) = h.heap_listp \/ AddrOf(p) \in seen
     \/ ~Valid(h, AddrOf(p) + ALIGNMENT)
  THEN <<>>
  ELSE <<AddrOf(p)>> \o ListWalk(h, FORWARD(h, AddrOf(p)), seen \cup {AddrOf(p)})

Registry(h) == ListWalk(h, h.list_root, {})

\* the link on which the walk of the registry stops
RECURSIVE ListEnd(_, _, _)
ListEnd(h, p, seen) ==
  IF AddrOf(p) = -1 \/ AddrOf(p) = h.heap_listp \/ AddrOf(p) \in seen
     \/ ~Valid(h, AddrOf(p) + ALIGNMENT)
  THEN p
  ELSE ListEnd(h, FORWARD(h, AddrOf(p)), seen \cup {AddrOf(p)})

\* the list ends on the prologue block or on NULL, not on a cycle
Terminated(h) == ListEnd(h, h.list_root, {}) \in {Ptr(h.heap_listp), NULL}

\* position of block bp in the sequence s, 0 if it is not in it
IndexOf(s, bp) == IF bp \in Range(s) THEN CHOOSE i \in DOMAIN s : s[i] = bp ELSE 0

\* the byte at address a (little-endian words)
ByteAt(m, a) ==
  IF a % 4 = 0 THEN Rd(m, a) % 256
  ELSE IF a % 4 = 1 THEN (Rd(m, a - 1) \div 256) % 256
  ELSE IF a % 4 = 2 THEN (Rd(m, a - 2) \div 65536) % 256
  ELSE (Rd(m, a - 3) \div 16777216) % 256

\* the first n bytes at q in m2 equal the first n bytes at p in m1
SamePrefix(m1, p, m2, q, n) ==
  /\ \A i \in 0..((n \div 4) - 1) : Rd(m2, q + 4 * i) = Rd(m1, p + 4 * i)
  /\ \A j \in (4 * (n \div 4))..(n - 1) : ByteAt(m2, q + j) = ByteAt(m1, p + j)

\* a step that is a call of the named public routine which returned
Returned(op) == lastOp'.op = op /\ calls' = calls + 1 /\ status' = "ok"

\* ---- C1 ----------------------------------------------------------------
\* C1: tag symmetry.  After mm_init and after every public call that
\* returned, every block of the heap has a header word equal to its footer
\* word.
TagSymmetry ==
  status = "ok" => \A b \in Blocks(Cur) : GET(Cur, HDRP(b)) = GET(Cur, FTRP(Cur, b))

\* ---- C2 ----------------------------------------------------------------
\* C2: registry exactness.  After every public call that returned, the
\* blocks reachable from list_root along the links are exactly the blocks
\* of the heap whose allocated bit is clear, and none is met twice.
RegistryExact ==
  status = "ok" =>
    /\ Range(Registry(Cur)) = FreeBlocks(Cur)
    /\ Terminated(Cur)

\* ---- C3 ----------------------------------------------------------------
\* C3: no adjacent free blocks.  After every public call that returned, no
\* block of the heap is free together with its physical successor.
NoAdjacentFree ==
  status = "ok" =>
    \A i \in 1..(Len(BlockSeq(Cur)) - 1) :
      ~(IsFree(Cur, BlockSeq(Cur)[i]) /\ IsFree(Cur, BlockSeq(Cur)[i + 1]))

\* a free has just merged a block into its free neighbours, next to a block
\* that stays allocated
NoAdjacentFreeWitness ==
  /\ status = "ok"
  /\ lastOp.op = "free"
  /\ \E i \in 1..(Len(BlockSeq(Cur)) - 1) :
       /\ lastOp.p > BlockSeq(Cur)[i] /\ lastOp.p < BlockSeq(Cur)[i + 1]
       /\ IsFree(Cur, BlockSeq(Cur)[i])
       /\ ~IsFree(Cur, BlockSeq(Cur)[i + 1])

\* ---- C4 ----------------------------------------------------------------
\* C4: a successful mm_malloc(n), n > 0, returns an 8-byte-aligned pointer
\* to a block marked allocated, with at least n bytes between its tags,
\* that shares no byte with the block of another live allocation.
MallocResult ==
  (status = "ok" /\ lastOp.op = "malloc" /\ lastOp.n > 0 /\ lastOp.ret # 0) =>
    /\ lastOp.ret % 8 = 0
    /\ GET_ALLOC(Cur, HDRP(lastOp.ret)) = 1
    /\ GET_SIZE(Cur, HDRP(lastOp.ret)) - OVERHEAD >= lastOp.n
    /\ \A q \in Live \ {lastOp.ret} :
         \/ lastOp.ret - WSIZE + GET_SIZE(Cur, HDRP(lastOp.ret)) <= q - WSIZE
         \/ q - WSIZE + GET_SIZE(Cur, HDRP(q)) <= lastOp.ret - WSIZE

\* mm_malloc has just returned a block while two other allocations are live
MallocResultWitness ==
  /\ status = "ok"
  /\ lastOp.op = "malloc"
  /\ lastOp.n > 0
  /\ lastOp.ret # 0
  /\ Cardinality(Live) = 3

\* ---- C5 ----------------------------------------------------------------
\* C5 read to the letter: the sizes of the blocks between the sentinels add
\* up to the number of bytes obtained from mem_sbrk.  The 2 * HEAP_SIZE
\* bytes of the first request of mm_init (padding word, prologue block,
\* epilogue header, unused words) lie outside every block, so this reading
\* fails from mm_init on.
ConservationAsStated ==
  status = "ok" => SumSizes(Cur, BlockSeq(Cur)) = mem_brk - HeapBase

\* C5: conservation.  After every public call that returned, the sizes of
\* the blocks between the sentinels add up to the number of bytes obtained
\* from mem_sbrk, the 2 * HEAP_SIZE bytes of the first request of mm_init
\* counted with the blocks or left out of the total.
Conservation ==
  status = "ok" =>
    SumSizes(Cur, BlockSeq(Cur)) \in {mem_brk - HeapBase, mem_brk - HeapBase - 2 * HEAP_SIZE}

\* the heap has been extended by mm_malloc and holds three blocks or more
ConservationWitness ==
  /\ status = "ok"
  /\ mem_brk > HeapBase + 2 * HEAP_SIZE + CHUNKSIZE \div 2
  /\ Len(BlockSeq(Cur)) >= 3
  /\ SumSizes(Cur, BlockSeq(Cur)) = mem_brk - HeapBase - 2 * HEAP_SIZE

\* ---- C6 ----------------------------------------------------------------
\* C6: resize preserves prefix.  When mm_realloc(p, n), p non-null and
\* n > 0, returns q, the first min(n, payload size of p before the call)
\* bytes at q are the bytes that were at p before the call.
ResizePreservesPrefix ==
  [][(Returned("realloc") /\ lastOp'.p # 0 /\ lastOp'.n > 0) =>
       SamePrefix(mem, lastOp'.p, mem', lastOp'.ret,
                  Min(lastOp'.n, GET_SIZE(Cur, HDRP(lastOp'.p)) - OVERHEAD))]_vars

\* mm_realloc has moved a block the client had filled
ResizePreservesPrefixWitness ==
  /\ status = "ok"
  /\ lastOp.op = "realloc"
  /\ lastOp.path = "move"
  /\ lastOp.ret # lastOp.p
  /\ ByteAt(mem, lastOp.ret) = FillWord % 256

\* ---- C7 ----------------------------------------------------------------
\* C7: mm_realloc(NULL, n) returns what mm_malloc(n) returns from the same
\* heap state and leaves the heap as mm_malloc(n) leaves it.
ReallocNullIsMalloc ==
  [][(Returned("realloc") /\ lastOp'.p = 0) =>
       /\ lastOp'.ret = mm_malloc(Cur, lastOp'.n).bp
       /\ Cur' = mm_malloc(Cur, lastOp'.n).h]_vars

\* ---- C8 ----------------------------------------------------------------
\* C8: shrink-to-same.  mm_realloc(p, s) with 0 < s <= payload capacity of
\* p returns p and leaves the blocks of the heap and the registry as they
\* were.
ShrinkToSame ==
  [][(Returned("realloc") /\ lastOp'.p # 0 /\ lastOp'.n > 0
        /\ lastOp'.n <= GET_SIZE(Cur, HDRP(lastOp'.p)) - OVERHEAD) =>
       /\ lastOp'.ret = lastOp'.p
       /\ BlockSet(Cur') = BlockSet(Cur)
       /\ Registry(Cur') = Registry(Cur)]_vars

\* ---- C9 ----------------------------------------------------------------
\* the first block of the registry, in list order, of size asize or more; 0
\* if there is none
FirstFit(h, asize) ==
  IF \E i \in DOMAIN Registry(h) : GET_SIZE(h, HDRP(Registry(h)[i])) >= asize
  THEN Registry(h)[CHOOSE i \in DOMAIN Registry(h) :
                     /\ GET_SIZE(h, HDRP(Registry(h)[i])) >= asize
                     /\ \A j \in 1..(i - 1) : GET_SIZE(h, HDRP(Registry(h)[j])) < asize]
  ELSE 0

\* C9: first fit over a LIFO registry.  mm_malloc(n), n > 0, returns the
\* first block in list order from list_root whose size is at least the
\* adjusted size and then leaves the heap end where it was; it extends the
\* heap, or fails, only when no registered block is large enough.  A block
\* that mm_free has just put at the head of the list is the one returned
\* when it is large enough.
FirstFitLIFO ==
  [][(Returned("malloc") /\ lastOp'.n > 0) =>
       /\ FirstFit(Cur, AdjustedSize(lastOp'.n)) # 0 =>
            /\ lastOp'.ret = FirstFit(Cur, AdjustedSize(lastOp'.n))
            /\ mem_brk' = mem_brk
       /\ FirstFit(Cur, AdjustedSize(lastOp'.n)) = 0 =>
            (mem_brk' > mem_brk \/ lastOp'.ret = 0)
       /\ (/\ lastOp.op = "free"
           /\ Registry(Cur) # <<>>
           /\ Head(Registry(Cur)) = lastOp.p
           /\ GET_SIZE(Cur, HDRP(lastOp.p)) >= AdjustedSize(lastOp'.n)) =>
            lastOp'.ret = lastOp.p]_vars

\* mm_malloc has just returned a block from the registry although a
\* registered block that is too small for the request lies at a
\* lower address
FirstFitLIFOWitness ==
  /\ status = "ok"
  /\ lastOp.op = "malloc"
  /\ lastOp.ret # 0
  /\ mem_brk = HeapBase + 2 * HEAP_SIZE + CHUNKSIZE \div 2
  /\ \E b \in Range(Registry(Cur)) :
       /\ b < lastOp.ret
       /\ GET_SIZE(Cur, HDRP(b)) < AdjustedSize(lastOp.n)

\* ---- C10 ---------------------------------------------------------------
\* the free block that mm_free(p) must leave in heap h: its address and its
\* size, from the blocks around p before the call
MergedStart(h, p) ==
  IF IndexOf(BlockSeq(h), p) > 1 /\ IsFree(h, BlockSeq(h)[IndexOf(BlockSeq(h), p) - 1])
  THEN BlockSeq(h)[IndexOf(BlockSeq(h), p) - 1]
  ELSE p

MergedSize(h, p) ==
  GET_SIZE(h, HDRP(p))
  + (IF MergedStart(h, p) # p THEN GET_SIZE(h, HDRP(MergedStart(h, p))) ELSE 0)
  + (IF NEXT_BLKP(h, p) \in FreeBlocks(h) THEN GET_SIZE(h, HDRP(NEXT_BLKP(h, p))) ELSE 0)

\* C10: coalescing merges.  After mm_free(p) the heap holds one free block
\* that covers p's block and each physical neighbour that was free before
\* the call; it starts at the predecessor when that was free, else at p;
\* its size is the sum of the merged sizes; it is in the registry once, and
\* neither p nor the former successor is a registry entry of its own.
CoalescingMerges ==
  [][Returned("free") =>
       /\ lastOp'.p \in Blocks(Cur)
       /\ MergedStart(Cur, lastOp'.p) \in FreeBlocks(Cur')
       /\ GET_SIZE(Cur', HDRP(MergedStart(Cur, lastOp'.p))) = MergedSize(Cur, lastOp'.p)
       /\ Cardinality({i \in DOMAIN Registry(Cur') :
                         Registry(Cur')[i] = MergedStart(Cur, lastOp'.p)}) = 1
       /\ Terminated(Cur')
       /\ \A b \in ({lastOp'.p, NEXT_BLKP(Cur, lastOp'.p)} \ {MergedStart(Cur, lastOp'.p)}) :
            b \notin Range(Registry(Cur'))]_vars

\* mm_free has just merged a block with its predecessor and its successor
CoalescingMergesWitness ==
  /\ status = "ok"
  /\ lastOp.op = "free"
  /\ \E b \in FreeBlocks(Cur) :
       /\ b < lastOp.p
       /\ NEXT_BLKP(Cur, b) = mem_brk
       /\ Len(BlockSeq(Cur)) = 1

\* ---- C11 ---------------------------------------------------------------
\* C11: exhaustion on allocate.  When no block of the registry is large
\* enough for mm_malloc(n), n > 0, and the heap-grow service cannot hand out
\* the bytes mm_malloc asks for, mm_malloc returns NULL and leaves every
\* word of the heap, the heap end and list_root as they were.
ExhaustionOnAllocate ==
  [][(/\ Returned("malloc")
      /\ lastOp'.n > 0
      /\ FirstFit(Cur, AdjustedSize(lastOp'.n)) = 0
      /\ mem_brk + MAX(AdjustedSize(lastOp'.n), CHUNKSIZE) > mem_max) =>
       /\ lastOp'.ret = 0
       /\ mem' = mem
       /\ mem_brk' = mem_brk
       /\ heap_listp' = heap_listp
       /\ list_root' = list_root]_vars

\* mm_malloc has just failed on a heap that holds a free block, too small
\* for the request, and cannot grow
ExhaustionOnAllocateWitness ==
  /\ status = "ok"
  /\ lastOp.op = "malloc"
  /\ lastOp.n > 0
  /\ lastOp.ret = 0
  /\ mem_brk + CHUNKSIZE > mem_max
  /\ Registry(Cur) # <<>>
  /\ Range(Registry(Cur)) = FreeBlocks(Cur)
  /\ FirstFit(Cur, AdjustedSize(lastOp.n)) = 0

\* ---- C12 ---------------------------------------------------------------
\* mm_realloc(p, n) on heap h has to move the block: the block is smaller
\* than n + HEAP_SIZE and cannot absorb its successor
MustMove(h, p, n) ==
  /\ n > 0
  /\ GET_SIZE(h, HDRP(p)) < n + HEAP_SIZE
  /\ \/ GET_ALLOC(h, HDRP(NEXT_BLKP(h, p))) # 0
     \/ GET_SIZE(h, HDRP(p)) + GET_SIZE(h, HDRP(NEXT_BLKP(h, p))) < n + HEAP_SIZE

\* the words of block p in heap h, tags included
BlockWords(h, p) ==
  [a \in {p - WSIZE + 4 * i : i \in 0..(GET_SIZE(h, HDRP(p)) \div 4 - 1)} |-> GET(h, a)]

\* C12: exhaustion on resize.  When mm_realloc(p, n) has to move the block
\* and the allocation inside it fails, mm_realloc returns NULL and block p
\* is still allocated, with its size, its tags and its payload as they
\* were.
ExhaustionOnResize ==
  [][(/\ status = "ok"
      /\ lastOp'.op = "realloc"
      /\ calls' = calls + 1
      /\ lastOp'.p # 0
      /\ MustMove(Cur, lastOp'.p, lastOp'.n)
      /\ mm_malloc(Cur, lastOp'.n + HEAP_SIZE).bp = 0
      /\ mm_malloc(Cur, lastOp'.n + HEAP_SIZE).h.st = "ok") =>
       /\ status' = "ok"
       /\ lastOp'.ret = 0
       /\ GET_ALLOC(Cur', HDRP(lastOp'.p)) = 1
       /\ BlockWords(Cur', lastOp'.p) = BlockWords(Cur, lastOp'.p)]_vars

\* ---- C13 ---------------------------------------------------------------
\* C13: payload isolation.  A public call that returned has left the bytes
\* the client asked for in every allocation it holds before and after the
\* call, other than the block the call was made on, as they were.
PayloadIsolation ==
  [][(status' = "ok" /\ calls' = calls + 1) =>
       \A q \in (Live \cap DOMAIN live') \ {lastOp'.p} :
         SamePrefix(mem, q, mem', q, live[q])]_vars

\* a call has moved or freed a block next to an allocation the client had
\* filled, and the allocation still holds what the client stored
PayloadIsolationWitness ==
  /\ status = "ok"
  /\ lastOp.op \in {"free", "realloc"}
  /\ \E q \in Live \ {lastOp.p, lastOp.ret} :
       /\ live[q] >= 4
       /\ GET(Cur, q) = FillWord

\* ---- C14 ---------------------------------------------------------------
\* C14: sentinels.  After mm_init and after every later call the prologue
\* block and the epilogue header are marked allocated, and neither is
\* list_root or reachable from list_root along the FORWARD links.
Sentinels ==
  status = "ok" =>
    /\ GET_ALLOC(Cur, HDRP(heap_listp)) = 1
    /\ GET_ALLOC(Cur, HDRP(mem_brk)) = 1
    /\ list_root \notin {Ptr(heap_listp), Ptr(mem_brk)}
    /\ mem_brk \notin Range(Registry(Cur))
    /\ ListEnd(Cur, list_root, {}) # Ptr(heap_listp)

\* every block of the heap is allocated: the walk from list_root starts on
\* the prologue
SentinelsWitness ==
  /\ status = "ok"
  /\ lastOp.op = "malloc"
  /\ lastOp.ret # 0
  /\ FreeBlocks(Cur) = {}
  /\ Blocks(Cur) # {}
  /\ list_root = Ptr(heap_listp)

\* ---- C15 ---------------------------------------------------------------
\* C15: zero-size semantics.  mm_malloc(0) returns NULL, obtains no byte
\* from the heap-grow service and leaves every word of the heap and
\* list_root as they were.
ZeroSize ==
  [][(lastOp'.op = "malloc" /\ calls' = calls + 1 /\ lastOp'.n = 0) =>
       /\ status' = "ok"
       /\ lastOp'.ret = 0
       /\ mem' = mem
       /\ mem_brk' = mem_brk
       /\ heap_listp' = heap_listp
       /\ list_root' = list_root]_vars

\* mm_malloc(0) has just returned on a heap that holds a free block and an
\* allocation
ZeroSizeWitness ==
  /\ status = "ok"
  /\ lastOp.op = "malloc"
  /\ lastOp.n = 0
  /\ lastOp.ret = 0
  /\ Live # {}
  /\ FreeBlocks(Cur) # {}

\* ---- C16 ---------------------------------------------------------------
\* a tag word of a block that is no sentinel: bits 1 and 2 are zero and the
\* size is a multiple of 8 of HEAP_SIZE bytes or more
WellFormedTag(w) == w % 8 \in {0, 1} /\ w - (w % 8) >= HEAP_SIZE

\* C16: tag well-formedness.  After every public call that returned, the
\* header and the footer of every block of the heap hold a well-formed tag.
TagsWellFormed ==
  status = "ok" =>
    \A b \in Blocks(Cur) :
      WellFormedTag(GET(Cur, HDRP(b))) /\ WellFormedTag(GET(Cur, FTRP(Cur, b)))

\* ---- C17 ---------------------------------------------------------------
\* C17: initial state.  When mm_init has returned 0 the registry holds one
\* free block, the only block of the heap, and its size is CHUNKSIZE.
InitialState ==
  (status = "ok" /\ lastOp.op = "init") =>
    /\ Registry(Cur) = <<FirstBlock>>
    /\ BlockSeq(Cur) = <<FirstBlock>>
    /\ IsFree(Cur, FirstBlock)
    /\ GET_SIZE(Cur, HDRP(FirstBlock)) = CHUNKSIZE

\* ---- C18 ---------------------------------------------------------------
\* C18: init failure propagation.  When the heap-grow service cannot hand
\* out the 2 * HEAP_SIZE bytes of mm_init's first request, or the bytes of
\* the first extension after them, mm_init returns -1 and has stored
\* nothing through the pointer of the request that failed.
InitFailure ==
  [][(/\ status = "start"
      /\ lastOp'.op = "init"
      /\ mem_brk + 2 * HEAP_SIZE + (CHUNKSIZE \div DSIZE) * WSIZE > mem_max) =>
       /\ status' = "initfail"
       /\ lastOp'.ret = -1
       /\ (mem_brk + 2 * HEAP_SIZE > mem_max => mem' = mem /\ mem_brk' = mem_brk)]_vars

\* ---- C19 ---------------------------------------------------------------
\* sequence s without its element x
Remove(s, x) ==
  IF x \notin Range(s) THEN s
  ELSE [i \in 1..(Len(s) - 1) |-> IF i < IndexOf(s, x) THEN s[i] ELSE s[i + 1]]

\* mm_realloc(p, n) on heap h can grow block p into its successor: the
\* block is smaller than the n + HEAP_SIZE bytes mm_realloc asks for, and
\* the successor is free and large enough to make up for it
CanGrow(h, p, n) ==
  /\ n > 0
  /\ GET_SIZE(h, HDRP(p)) < n + HEAP_SIZE
  /\ GET_ALLOC(h, HDRP(NEXT_BLKP(h, p))) = 0
  /\ GET_SIZE(h, HDRP(p)) + GET_SIZE(h, HDRP(NEXT_BLKP(h, p))) >= n + HEAP_SIZE

\* C19: grow in place.  When mm_realloc(p, n) needs more than the size of
\* block p and the successor of p is free and large enough, mm_realloc
\* returns p, the successor has left the registry, block p is one allocated
\* block of the two sizes together with equal header and footer, and no
\* other block and no other registry entry has changed.
GrowInPlace ==
  [][(/\ status = "ok"
      /\ lastOp'.op = "realloc"
      /\ calls' = calls + 1
      /\ lastOp'.p # 0
      /\ CanGrow(Cur, lastOp'.p, lastOp'.n)) =>
       /\ status' = "ok"
       /\ lastOp'.ret = lastOp'.p
       /\ GET(Cur', HDRP(lastOp'.p))
            = PACK(GET_SIZE(Cur, HDRP(lastOp'.p))
                   + GET_SIZE(Cur, HDRP(NEXT_BLKP(Cur, lastOp'.p))), 1)
       /\ GET(Cur', FTRP(Cur', lastOp'.p)) = GET(Cur', HDRP(lastOp'.p))
       /\ Registry(Cur') = Remove(Registry(Cur), NEXT_BLKP(Cur, lastOp'.p))
       /\ NEXT_BLKP(Cur, lastOp'.p) \notin Range(Registry(Cur'))
       /\ BlockSet(Cur') \ {<<lastOp'.p, GET_SIZE(Cur', HDRP(lastOp'.p)), 1>>}
            = BlockSet(Cur) \ {<<lastOp'.p, GET_SIZE(Cur, HDRP(lastOp'.p)), 1>>,
                               <<NEXT_BLKP(Cur, lastOp'.p),
                                 GET_SIZE(Cur, HDRP(NEXT_BLKP(Cur, lastOp'.p))), 0>>}]_vars

\* mm_realloc has just grown a block into a registered successor that was
\* not the head of the list
GrowInPlaceWitness ==
  /\ status = "ok"
  /\ lastOp.op = "realloc"
  /\ lastOp.path = "grow"
  /\ lastOp.ret = lastOp.p
  /\ Registry(Cur) # <<>>
  /\ Range(Registry(Cur)) = FreeBlocks(Cur)

\* ---- C20 ---------------------------------------------------------------
\* C20: free-list well-formedness.  After every public call that returned,
\* list_root is not null; the FORWARD links from list_root lead, without
\* meeting a node twice, through free blocks of the heap to the allocated
\* prologue block; the BACK link of the first node is null and the BACK
\* link of every other node points to the node before it.
FreeListWellFormed ==
  status = "ok" =>
    /\ list_root # NULL
    /\ ListEnd(Cur, list_root, {}) = Ptr(heap_listp)
    /\ GET_ALLOC(Cur, HDRP(heap_listp)) = 1
    /\ \A i \in DOMAIN Registry(Cur) :
         /\ Registry(Cur)[i] \in FreeBlocks(Cur)
         /\ BACK(Cur, Registry(Cur)[i])
              = IF i = 1 THEN NULL ELSE Ptr(Registry(Cur)[i - 1])

\* the registry holds two blocks or more
FreeListWellFormedWitness ==
  /\ status = "ok"
  /\ Len(Registry(Cur)) >= 2
  /\ Range(Registry(Cur)) = FreeBlocks(Cur)
  /\ ListEnd(Cur, list_root, {}) = Ptr(heap_listp)
====
